---- MODULE Spec2Model ----
(***************************************************************************)
(* Model of the grading harness in src/src/Tester.py.                      *)
(*                                                                         *)
(* grade_section drives test_func over every student file and every Func;  *)
(* test_func resolves the reference and the candidate callables and runs   *)
(* test_one_arg_set over the arg sets; test_one_arg_set binds deep copies  *)
(* of the arguments, runs the candidate under run_with_timeout, calls the  *)
(* reference directly and builds an ArgSetTestResult.                      *)
(*                                                                         *)
(* Python values are modelled as tuples: None is the empty tuple, the      *)
(* integer v is <<v>>, a message is <<"text">>.  Mutable argument objects  *)
(* are cells of a heap (address -> contents); an arg set is a sequence of  *)
(* addresses, deepcopy allocates a fresh cell.                             *)
(*                                                                         *)
(* What student code and the reference do when they are called is the      *)
(* environment's choice, drawn with \E at the call: a candidate returns a  *)
(* value, raises an Exception, raises a BaseException that is not an       *)
(* Exception (SystemExit, KeyboardInterrupt), runs past the deadline in    *)
(* interruptible bytecode (stopit delivers TimeoutException), or never     *)
(* gives control back (it swallows the TimeoutException, which is an       *)
(* Exception subclass, or blocks outside the interpreter loop where the    *)
(* asynchronous exception of ThreadingTimeout is not delivered).           *)
(***************************************************************************)
EXTENDS Integers, Sequences, FiniteSets, TLC

\* ---------------------------------------------------------------- bounds
NumStudents == 2

Students == 1..NumStudents

\* the contents an argument object can have
ArgVals == {0, 1}

\* ------------------------------------------------------- python values
None == <<>>
PyInt(v) == <<v>>
\* what a candidate hands back when it returns: its answer or nothing
RetVals == {PyInt(1), None}

\* ------------------------------------------------------------ constants
INFINITE_LOOP_STR == <<"Function call did not return in < 5sec, likely an infinite loop">>
RUN_TIME_ERR_STR == <<"An error ocurred during excuting of your function">>
LOAD_TIME_ERR_STR == <<"An error occured when loading your function for grading">>

\* ------------------------------------------------ grading configuration
\* Two Func instances.  "first" takes one or two (mutable) arguments and
\* has two arg sets; "touch" takes no argument, has one arg set, and its
\* reference returns None.  arg_sets hold the addresses of the argument
\* objects.
Funcs ==
  << [name |-> "first", arg_sets |-> << <<1, 2>>, <<3>> >>, score |-> 10],
     [name |-> "touch", arg_sets |-> << <<>> >>, score |-> 5] >>

NumFuncs == Len(Funcs)

Range(seq) == {seq[i] : i \in 1..Len(seq)}

\* the argument objects owned by the configuration, and their contents
SpecAddrs ==
  UNION {UNION {Range(Funcs[f].arg_sets[a]) : a \in 1..Len(Funcs[f].arg_sets)} :
           f \in 1..NumFuncs}
ArgInit(a) == a % 2
SpecHeap == [a \in SpecAddrs |-> ArgInit(a)]

VARIABLES
  pc,                     \* position of the single thread of control
  si, fi, ai,             \* student, Func and arg set being processed
  function_test_results,  \* per student file: the FuncTestResults appended
  heap,                   \* contents of the live argument objects
  sft_callable,           \* test_func's sft_func: is the resolved value callable
  stf_args, sol_args,     \* objects bound into the two partial chains
  rwt,                    \* the triple returned by run_with_timeout
  answer_key,             \* the reference's return value
  escaped,                \* the exception raised outside every handler, or "none"
  stf_ended,              \* the candidate's invocation has ended
  sol_calls               \* reference invocations in this test_one_arg_set

vars == <<pc, si, fi, ai, function_test_results, heap, sft_callable, stf_args,
          sol_args, rwt, answer_key, escaped, stf_ended, sol_calls>>

\* ------------------------------------------------------ result objects
ArgSetTestResult(inputs, expected, actual, exception_str) ==
  [inputs |-> inputs, expected |-> expected, actual |-> actual,
   exception_str |-> exception_str, is_correct |-> (expected = actual)]

FuncTestResult(function_name, score, exc) ==
  [function_name |-> function_name, score |-> score, arg_sets_res |-> <<>>,
   exc |-> exc]

\* add_set_result putting the new result in front
add_set_result_front(self, result) ==
  [self EXCEPT !.arg_sets_res = <<result>> \o @]

add_set_result(self, result) ==
  [self EXCEPT !.arg_sets_res = Append(@, result)]

\* the loop of calc_score taking one passing arg set as enough
RECURSIVE calc_score_loop_any(_, _)
calc_score_loop_any(self, i) ==
  IF i > Len(self.arg_sets_res) THEN 0
  ELSE IF self.arg_sets_res[i].is_correct THEN self.score
  ELSE calc_score_loop_any(self, i + 1)

\* the for loop of calc_score, from its i-th iteration on
RECURSIVE calc_score_loop(_, _)
calc_score_loop(self, i) ==
  IF i > Len(self.arg_sets_res) THEN self.score
  ELSE IF ~self.arg_sets_res[i].is_correct THEN 0
  ELSE calc_score_loop(self, i + 1)

calc_score(self) ==
  IF self.exc THEN 0 ELSE calc_score_loop(self, 1)

\* ------------------------------------------------------------ rendering
\* The report text as its parts: the grid of tabulate is the verdict and
\* the two value cells; a str value would get quotes, no str occurs here.
ArgSetStr(self) ==
  [inputs |-> self.inputs,
   res |-> IF ~self.is_correct THEN "FAILED" ELSE "PASSED",
   expected |-> self.expected,
   actual |-> self.actual,
   tail |-> IF self.exception_str # None THEN self.exception_str ELSE None]

FuncStr(self) ==
  LET score_recieved == IF self.exc THEN 0 ELSE calc_score(self)
      body == IF self.exc THEN LOAD_TIME_ERR_STR
              ELSE <<"cases were tested", Len(self.arg_sets_res)>>
  IN [header |-> <<self.function_name, score_recieved, self.score>>,
      body |-> body,
      res_str |-> [i \in 1..Len(self.arg_sets_res) |->
                     [case |-> i - 1, text |-> ArgSetStr(self.arg_sets_res[i])]]]

\* ------------------------------------------------------------- deepcopy
Fresh(h) == CHOOSE n \in 1..(Cardinality(DOMAIN h) + 1) : n \notin DOMAIN h

\* deepcopy handing back the argument itself
deepcopy_alias(h, a) == <<h, a>>

\* deepcopy(arg): a new object with the same contents; <<heap, address>>
deepcopy(h, a) ==
  LET n == Fresh(h)
  IN <<[x \in DOMAIN h \cup {n} |-> IF x = n THEN h[a] ELSE h[x]], n>>

\* lines 47-49: bind a copy of every argument to each of the two partials
RECURSIVE bind_args(_, _, _, _, _)
bind_args(h, arg_set, i, stf, sol) ==
  IF i > Len(arg_set) THEN [heap |-> h, stf |-> stf, sol |-> sol]
  ELSE LET c1 == deepcopy(h, arg_set[i])
           c2 == deepcopy(c1[1], arg_set[i])
       IN bind_args(c2[1], arg_set, i + 1, Append(stf, c1[2]), Append(sol, c2[2]))

Contents(h, args) == [i \in 1..Len(args) |-> h[args[i]]]

\* an in-place mutation of the objects a callable was handed
Mutations(args) == [1..Len(args) -> ArgVals]
Mutate(h, args, w) ==
  [x \in DOMAIN h |->
     IF \E i \in 1..Len(args) : args[i] = x
     THEN w[CHOOSE i \in 1..Len(args) : args[i] = x] ELSE h[x]]

\* ----------------------------------------------------- run_with_timeout
\* What run_with_timeout does with each way the callable can end.
\*   "return"  func() returns val
\*   "raise"   func() raises an Exception (TypeError of a non-callable too)
\*   "timeout" TimeoutException is delivered inside func()
\*   "exit"    func() raises a BaseException that is no Exception
\*   "hang"    func() never gives control back
Outcomes ==
  [kind : {"return"}, val : RetVals] \cup
  [kind : {"raise", "timeout", "exit", "hang"}, val : {None}]

run_with_timeout(o) ==
  CASE o.kind = "return" ->
         [ends |-> "returns", time_out |-> FALSE, return_val |-> o.val, exc_str |-> None]
    [] o.kind = "timeout" ->
         [ends |-> "returns", time_out |-> TRUE, return_val |-> None, exc_str |-> None]
    [] o.kind = "raise" ->
         [ends |-> "returns", time_out |-> FALSE, return_val |-> None,
          exc_str |-> RUN_TIME_ERR_STR]
    [] o.kind = "exit" ->
         [ends |-> "propagates", time_out |-> FALSE, return_val |-> None, exc_str |-> None]
    [] o.kind = "hang" ->
         [ends |-> "never", time_out |-> FALSE, return_val |-> None, exc_str |-> None]

NoTriple == [time_out |-> FALSE, return_val |-> None, exc_str |-> None]
Triple(r) == [time_out |-> r.time_out, return_val |-> r.return_val, exc_str |-> r.exc_str]

\* the reference solution: "first" returns its first argument, "touch" None
sol_func(seen) == IF Len(seen) > 0 THEN PyInt(seen[1]) ELSE None

\* lines 52-58
make_result(arg_set, key, t) ==
  IF t.time_out THEN ArgSetTestResult(arg_set, key, None, INFINITE_LOOP_STR)
  ELSE IF t.exc_str # None THEN ArgSetTestResult(arg_set, key, None, t.exc_str)
  ELSE ArgSetTestResult(arg_set, key, t.return_val, None)

\* ----------------------------------------------------------------- Init
Init ==
  /\ pc = "test_func"
  /\ si = 1 /\ fi = 1 /\ ai = 1
  /\ function_test_results = [s \in Students |-> <<>>]
  /\ heap = SpecHeap
  /\ sft_callable = TRUE
  /\ stf_args = <<>> /\ sol_args = <<>>
  /\ rwt = NoTriple
  /\ answer_key = None
  /\ escaped = "none"
  /\ stf_ended = FALSE
  /\ sol_calls = 0

\* grade_section's loops: what follows the return of test_func(fi, si)
NextFunc ==
  /\ sft_callable' = TRUE
  /\ IF fi < NumFuncs THEN pc' = "test_func" /\ fi' = fi + 1 /\ si' = si
     ELSE IF si < NumStudents THEN pc' = "test_func" /\ fi' = 1 /\ si' = si + 1
     ELSE pc' = "done" /\ fi' = fi /\ si' = si

Locals0 ==
  /\ stf_args' = <<>> /\ sol_args' = <<>>
  /\ rwt' = NoTriple /\ answer_key' = None
  /\ stf_ended' = FALSE /\ sol_calls' = 0

Abort(exc) ==
  /\ pc' = "aborted"
  /\ escaped' = exc

\* the student's module is in sys.modules once one of its names resolved
ModuleCached(s) ==
  \E i \in 1..Len(function_test_results[s]) : ~function_test_results[s][i].exc

\* ------------------------------------------------------------ test_func
\* line 68 raises: the reference cannot be resolved
SolLoadFails ==
  /\ pc = "test_func"
  /\ Abort("SolLoad")
  /\ UNCHANGED <<si, fi, ai, function_test_results, heap, sft_callable, stf_args,
                 sol_args, rwt, answer_key, stf_ended, sol_calls>>

\* line 71 raises an Exception: lines 72-75
StfLoadFails ==
  /\ pc = "test_func"
  /\ function_test_results' =
       [function_test_results EXCEPT
          ![si] = Append(@, FuncTestResult(Funcs[fi].name, Funcs[fi].score, TRUE))]
  /\ NextFunc
  /\ UNCHANGED <<ai, heap, stf_args, sol_args, rwt, answer_key, escaped, stf_ended,
                 sol_calls>>

\* line 71 raises a BaseException that is no Exception (the module exits
\* while it is imported): except Exception does not apply
StfLoadExits ==
  /\ pc = "test_func"
  /\ ~ModuleCached(si)
  /\ Abort("StfLoadExit")
  /\ UNCHANGED <<si, fi, ai, function_test_results, heap, sft_callable, stf_args,
                 sol_args, rwt, answer_key, stf_ended, sol_calls>>

\* line 71 returns whatever the name is bound to: lines 77-79
StfLoadOk ==
  /\ pc = "test_func"
  /\ function_test_results' =
       [function_test_results EXCEPT
          ![si] = Append(@, FuncTestResult(Funcs[fi].name, Funcs[fi].score, FALSE))]
  /\ ai' = 1
  /\ IF Len(Funcs[fi].arg_sets) = 0
     THEN NextFunc
     ELSE /\ \E callable \in BOOLEAN : sft_callable' = callable
          /\ pc' = "bind" /\ UNCHANGED <<si, fi>>
  /\ UNCHANGED <<heap, stf_args, sol_args, rwt, answer_key, escaped, stf_ended,
                 sol_calls>>

\* ----------------------------------------------------- test_one_arg_set
arg_set == Funcs[fi].arg_sets[ai]

\* lines 47-49; partial() raises TypeError for a first argument that is
\* not callable
BindArgs ==
  /\ pc = "bind"
  /\ IF ~sft_callable /\ Len(arg_set) > 0
     THEN /\ Abort("NotCallable")
          /\ UNCHANGED <<heap, stf_args, sol_args>>
     ELSE LET b == bind_args(heap, arg_set, 1, <<>>, <<>>)
          IN /\ heap' = b.heap
             /\ stf_args' = b.stf
             /\ sol_args' = b.sol
             /\ pc' = "run_stf"
             /\ escaped' = escaped
  /\ UNCHANGED <<si, fi, ai, function_test_results, sft_callable, rwt, answer_key,
                 stf_ended, sol_calls>>

\* line 50
RunStf ==
  /\ pc = "run_stf"
  /\ \E o \in Outcomes, w \in Mutations(stf_args) :
       /\ sft_callable \/ (o.kind = "raise" /\ w = Contents(heap, stf_args))
       /\ heap' = Mutate(heap, stf_args, w)
       /\ LET r == run_with_timeout(o)
          IN CASE r.ends = "returns" ->
                    /\ rwt' = Triple(r)
                    /\ pc' = "call_sol"
                    /\ stf_ended' = TRUE
                    /\ escaped' = escaped
               [] r.ends = "propagates" ->
                    /\ Abort("StfExit")
                    /\ stf_ended' = TRUE
                    /\ rwt' = rwt
               [] r.ends = "never" ->
                    /\ pc' = "hung"
                    /\ UNCHANGED <<rwt, stf_ended, escaped>>
  /\ UNCHANGED <<si, fi, ai, function_test_results, sft_callable, stf_args,
                 sol_args, answer_key, sol_calls>>

\* line 51, the reference returns
CallSol ==
  /\ pc = "call_sol"
  /\ sol_calls' = sol_calls + 1
  /\ answer_key' = sol_func(Contents(heap, sol_args))
  /\ \E w \in Mutations(sol_args) : heap' = Mutate(heap, sol_args, w)
  /\ pc' = "record"
  /\ UNCHANGED <<si, fi, ai, function_test_results, sft_callable, stf_args,
                 sol_args, rwt, escaped, stf_ended>>

\* line 51 with the reference's exception caught and the arg set graded
SolRaises_graded ==
  /\ pc = "call_sol"
  /\ sol_calls' = sol_calls + 1
  /\ escaped' = "SolRaise"
  /\ answer_key' = None
  /\ pc' = "record"
  /\ UNCHANGED <<si, fi, ai, function_test_results, heap, sft_callable, stf_args,
                 sol_args, rwt, stf_ended>>

\* line 51, the reference raises: nothing catches it
SolRaises ==
  /\ pc = "call_sol"
  /\ sol_calls' = sol_calls + 1
  /\ Abort("SolRaise")
  /\ UNCHANGED <<si, fi, ai, function_test_results, heap, sft_callable, stf_args,
                 sol_args, rwt, answer_key, stf_ended>>

\* lines 52-58 and 81, then the next arg set or the return of test_func;
\* the copies die with the partials
Record ==
  /\ pc = "record"
  /\ LET n == Len(function_test_results[si])
         set_result == make_result(arg_set, answer_key, rwt)
     IN function_test_results' =
          [function_test_results EXCEPT ![si][n] = add_set_result(@, set_result)]
  /\ heap' = [x \in DOMAIN heap \cap SpecAddrs |-> heap[x]]
  /\ Locals0
  /\ IF ai < Len(Funcs[fi].arg_sets)
     THEN ai' = ai + 1 /\ pc' = "bind" /\ UNCHANGED <<si, fi, sft_callable>>
     ELSE ai' = 1 /\ NextFunc
  /\ UNCHANGED escaped

Next ==
  \/ SolLoadFails
  \/ StfLoadFails
  \/ StfLoadExits
  \/ StfLoadOk
  \/ BindArgs
  \/ RunStf
  \/ CallSol
  \/ SolRaises
  \/ Record

Spec == Init /\ [][Next]_vars

\* ======================================================== the properties
Results(s) == function_test_results[s]
AllCorrect(r) == \A k \in 1..Len(r.arg_sets_res) : r.arg_sets_res[k].is_correct
ReferenceFailed == escaped \in {"SolLoad", "SolRaise"}
\* test_func(Funcs[f], student s) has returned
Returned(s, f) == pc = "done" \/ s < si \/ (s = si /\ f < fi)

\* C1: all-or-nothing scoring.  For every FuncTestResult, whatever has been
\* appended to it, calc_score() is the full score when exc is false and every
\* appended result is correct, and 0 otherwise.
C1_AllOrNothing ==
  \A s \in Students : \A f \in 1..Len(Results(s)) :
    LET r == Results(s)[f]
        got == calc_score(r)
    IN /\ got = IF ~r.exc /\ AllCorrect(r) THEN r.score ELSE 0
       /\ ~(0 < got /\ got < r.score)

\* C1 witness: a function with one passing and one failing arg set scores 0
\* while another function of the same student has its full score.
C1_Witness ==
  \E s \in Students : \E f, g \in 1..Len(Results(s)) :
    /\ Len(Results(s)[f].arg_sets_res) = 2
    /\ Results(s)[f].arg_sets_res[1].is_correct
    /\ ~Results(s)[f].arg_sets_res[2].is_correct
    /\ calc_score(Results(s)[f]) = 0
    /\ Len(Results(s)[g].arg_sets_res) > 0
    /\ calc_score(Results(s)[g]) = Results(s)[g].score

\* C2: an arg set on which the candidate timed out or raised gives a result
\* with actual = None and the matching message, that result is incorrect
\* whatever the reference returned, and the function's calc_score() is 0.
C2_FailureIsIncorrect ==
  /\ pc = "record" =>
       LET res == make_result(arg_set, answer_key, rwt)
       IN /\ rwt.time_out =>
               res.actual = None /\ res.exception_str = INFINITE_LOOP_STR /\ ~res.is_correct
          /\ (~rwt.time_out /\ rwt.exc_str # None) =>
               res.actual = None /\ res.exception_str = RUN_TIME_ERR_STR /\ ~res.is_correct
  /\ \A s \in Students : \A f \in 1..Len(Results(s)) :
       \A k \in 1..Len(Results(s)[f].arg_sets_res) :
         Results(s)[f].arg_sets_res[k].exception_str # None =>
           /\ Results(s)[f].arg_sets_res[k].actual = None
           /\ ~Results(s)[f].arg_sets_res[k].is_correct
           /\ calc_score(Results(s)[f]) = 0

\* C3: run_with_timeout lets no exception escape and always returns a triple
\* in which exactly one of normal return, timeout and error holds.
C3_NoEscape ==
  /\ escaped # "StfExit"
  /\ pc # "hung"
  /\ pc \in {"call_sol", "record"} =>
       \/ ~rwt.time_out /\ rwt.exc_str = None
       \/ rwt.time_out /\ rwt.return_val = None /\ rwt.exc_str = None
       \/ ~rwt.time_out /\ rwt.return_val = None /\ rwt.exc_str = RUN_TIME_ERR_STR

\* C4: functional isolation.  Whatever fails on the student side, when
\* grade_section is over every student holds exactly one FuncTestResult per
\* Func, in the order of funcs.
C4_Isolation ==
  (pc \in {"done", "aborted"} /\ ~ReferenceFailed) =>
    \A s \in Students :
      /\ Len(Results(s)) = NumFuncs
      /\ \A f \in 1..NumFuncs : Results(s)[f].function_name = Funcs[f].name

\* C5: when the candidate cannot be resolved, test_func appends exactly one
\* FuncTestResult with exc true and no arg set result, its score is 0 and
\* its report shows the load-time message and no case block.
C5_LoadFailure ==
  /\ escaped = "StfLoadExit" =>
       /\ Len(Results(si)) = fi
       /\ Results(si)[fi].exc
  /\ \A s \in Students : \A f \in 1..Len(Results(s)) :
       Results(s)[f].exc =>
         /\ Results(s)[f].arg_sets_res = <<>>
         /\ calc_score(Results(s)[f]) = 0
         /\ FuncStr(Results(s)[f]).body = LOAD_TIME_ERR_STR
         /\ Len(FuncStr(Results(s)[f]).res_str) = 0

\* C6: grading runs to completion.  Grading is never stuck inside a
\* candidate that loops or blocks, and when it is done every arg set of
\* every Func has been evaluated for every student whose candidate resolved.
C6_RunsToCompletion ==
  /\ pc # "hung"
  /\ pc = "done" =>
       \A s \in Students :
         /\ Len(Results(s)) = NumFuncs
         /\ \A f \in 1..NumFuncs :
              ~Results(s)[f].exc =>
                Len(Results(s)[f].arg_sets_res) = Len(Funcs[f].arg_sets)

\* C7: argument isolation.  The candidate and the reference are handed
\* copies that share nothing with each other or with the Func's arg sets:
\* each observes the configured contents, and no mutation by either changes
\* the Func's argument objects, which the recorded inputs refer to.
C7_ArgIsolation ==
  /\ \A a \in SpecAddrs : a \in DOMAIN heap /\ heap[a] = SpecHeap[a]
  /\ pc = "run_stf" => Contents(heap, stf_args) = Contents(SpecHeap, arg_set)
  /\ pc = "call_sol" => Contents(heap, sol_args) = Contents(SpecHeap, arg_set)
  /\ Range(stf_args) \cap Range(sol_args) = {}
  /\ (Range(stf_args) \cup Range(sol_args)) \cap SpecAddrs = {}
  /\ \A s \in Students : \A f \in 1..Len(Results(s)) :
       \A k \in 1..Len(Results(s)[f].arg_sets_res) :
         Range(Results(s)[f].arg_sets_res[k].inputs) \subseteq SpecAddrs

\* C7 witness: for a later student, both callables have changed every
\* object they were handed.
C7_Witness ==
  /\ pc = "record" /\ si > 1 /\ Len(arg_set) > 1
  /\ \A i \in 1..Len(arg_set) :
       /\ heap[stf_args[i]] # SpecHeap[arg_set[i]]
       /\ heap[sol_args[i]] # SpecHeap[arg_set[i]]

\* C8: whatever way the candidate's invocation ended, the reference is
\* invoked exactly once in that test_one_arg_set, after the candidate, and
\* expected is what it returned.
C8_ReferenceOnce ==
  /\ pc = "run_stf" => sol_calls = 0
  /\ pc = "call_sol" => stf_ended /\ sol_calls = 0
  /\ (stf_ended /\ pc \in {"record", "aborted"}) => sol_calls = 1
  /\ pc = "record" => make_result(arg_set, answer_key, rwt).expected = answer_key

\* C9: for a resolved candidate the result list is at every point a prefix
\* of the arg sets in declared order, and it holds one result per arg set
\* once test_func has returned.
C9_PrefixInOrder ==
  \A s \in Students : \A f \in 1..Len(Results(s)) :
    LET r == Results(s)[f]
    IN ~r.exc =>
         /\ Len(r.arg_sets_res) <= Len(Funcs[f].arg_sets)
         /\ \A k \in 1..Len(r.arg_sets_res) :
              r.arg_sets_res[k].inputs = Funcs[f].arg_sets[k]
         /\ Returned(s, f) => Len(r.arg_sets_res) = Len(Funcs[f].arg_sets)
         /\ (s = si /\ f = fi /\ pc \in {"bind", "run_stf", "call_sol", "record"}) =>
              Len(r.arg_sets_res) = ai - 1

\* C9 witness: the second arg set is being evaluated, one result is in.
C9_Witness ==
  /\ pc = "call_sol" /\ ai = 2
  /\ Len(Results(si)) = fi
  /\ Len(Results(si)[fi].arg_sets_res) = 1
  /\ Results(si)[fi].arg_sets_res[1].inputs = Funcs[fi].arg_sets[1]

\* C10: a reference that cannot be resolved or that raises ends the run:
\* nothing is recorded for that arg set, no later arg set, Func or student
\* is evaluated, and what was appended before stays.
C10_ReferenceFatal ==
  ReferenceFailed =>
    /\ pc = "aborted"
    /\ \A s \in Students : s > si => Results(s) = <<>>
    /\ \A s \in Students : s < si => Len(Results(s)) = NumFuncs
    /\ escaped = "SolLoad" => Len(Results(si)) = fi - 1
    /\ escaped = "SolRaise" =>
         /\ Len(Results(si)) = fi
         /\ ~Results(si)[fi].exc
         /\ Len(Results(si)[fi].arg_sets_res) = ai - 1

\* C10 witness: the reference raised on the second arg set of a student
\* that is not the last one; the first arg set's result is kept.
C10_Witness ==
  /\ escaped = "SolRaise" /\ pc = "aborted"
  /\ ai = 2 /\ si < NumStudents
  /\ Len(Results(si)[fi].arg_sets_res) = 1

====
